---- MODULE Spec2Model ----
(***************************************************************************)
(* PhishGuard: URL feature extraction (app/features.py), rule-based risk   *)
(* scoring (app/scorer.py) and the analyze endpoint with its verdict       *)
(* composition (app/main.py).                                              *)
(*                                                                         *)
(* A Python str is modelled as a sequence of one-character strings, so     *)
(* that strip, startswith, split, substring search and translate are       *)
(* computed character by character as the code computes them.  A float is  *)
(* modelled as an exact rational (a model probability k/PDen) or as a      *)
(* fixed-point integer (url_entropy and confidence in units of 1e-4).      *)
(***************************************************************************)
EXTENDS Integers, Sequences, FiniteSets, TLC

VARIABLES
    _model,        \* main.py global: TRUE when a classifier object is loaded
    _scaler,       \* main.py global: TRUE when a scaler object is loaded
    _engine_name,  \* main.py global: the engine label of the loaded model
    pc,            \* position of the one call in progress
    entry,         \* which entry point was called
    input,         \* the argument of the call (request url, url, hostname)
    url,           \* the url local of analyze_url / extract_features
    ext,           \* extract_features: locals computed so far
    features,      \* the feature record
    meta,          \* the metadata record
    bd,            \* compute_risk_breakdown: scores and flags so far
    ml_prob,       \* analyze_url: model probability numerator, or None
    env,           \* what the WHOIS and DNS lookups of this call answered
    response,      \* what the call returned or raised
    defaulttimeout,\* the socket module's process-wide default timeout, or None
    earlier        \* history: an analysis this process answered before, or none

vars == <<_model, _scaler, _engine_name, pc, entry, input, url, ext,
          features, meta, bd, ml_prob, env, response, defaulttimeout, earlier>>

EmptyStr == <<>>

-----------------------------------------------------------------------------
(* Bounds of the model *)

\* hostnames given to _parse_domain_parts have at most MaxLabels labels
MaxLabels == 4

\* the domain ages and url lengths given to the tiered rules of the scorer go
\* up to MaxAge days and MaxUrlLength characters
MaxAge == 185
MaxUrlLength == 165
\* a model probability is k/PDen for k in 0..PDen
PDen == 8

-----------------------------------------------------------------------------
(* Constant tables of app/features.py *)

HIGH_RISK_TLDS ==
    { <<"t", "k">>, <<"m", "l">>, <<"g", "a">>, <<"c", "f">>, <<"g", "q">>,
      <<"x", "y", "z">>, <<"t", "o", "p">>, <<"i", "c", "u">>, <<"b", "u", "z", "z">>, <<"c", "l", "i", "c", "k">>,
      <<"p", "w">>, <<"d", "a", "t", "e">>, <<"d", "o", "w", "n", "l", "o", "a", "d">>, <<"r", "a", "c", "i", "n", "g">>,
      <<"w", "i", "n">>, <<"l", "o", "a", "n">>, <<"p", "a", "r", "t", "y">>, <<"s", "t", "r", "e", "a", "m">>,
      <<"r", "e", "v", "i", "e", "w">>, <<"c", "o", "u", "n", "t", "r", "y">>, <<"s", "c", "i", "e", "n", "c", "e">>,
      <<"w", "o", "r", "k">>, <<"t", "r", "a", "d", "e">>, <<"l", "i", "n", "k">>, <<"o", "n", "l", "i", "n", "e">>,
      <<"s", "i", "t", "e">>, <<"w", "e", "b", "s", "i", "t", "e">>, <<"l", "i", "v", "e">>, <<"s", "h", "o", "p">> }

SUSPICIOUS_KEYWORDS ==
    << <<"l", "o", "g", "i", "n">>, <<"s", "i", "g", "n", "i", "n">>, <<"v", "e", "r", "i", "f", "y">>, <<"s", "e", "c", "u", "r", "e">>, <<"a", "c", "c", "o", "u", "n", "t">>, <<"u", "p", "d", "a", "t", "e">>,
       <<"c", "o", "n", "f", "i", "r", "m">>, <<"b", "a", "n", "k">>, <<"p", "a", "y", "p", "a", "l">>, <<"a", "p", "p", "l", "e">>, <<"a", "m", "a", "z", "o", "n">>, <<"g", "o", "o", "g", "l", "e">>,
       <<"m", "i", "c", "r", "o", "s", "o", "f", "t">>, <<"e", "b", "a", "y">>, <<"n", "e", "t", "f", "l", "i", "x">>, <<"p", "a", "s", "s", "w", "o", "r", "d">>, <<"c", "r", "e", "d", "e", "n", "t", "i", "a", "l">>,
       <<"b", "i", "l", "l", "i", "n", "g">>, <<"i", "n", "v", "o", "i", "c", "e">>, <<"s", "u", "s", "p", "e", "n", "d", "e", "d">>, <<"u", "r", "g", "e", "n", "t">>, <<"a", "l", "e", "r", "t">>,
       <<"w", "e", "b", "s", "c", "r">>, <<"v", "a", "l", "i", "d", "a", "t", "e">>, <<"a", "u", "t", "h">>, <<"r", "e", "c", "o", "v", "e", "r">> >>

\* a dict iterates in insertion order: a sequence of (brand, brand_domain)
BRAND_DOMAINS ==
    << <<<<"p", "a", "y", "p", "a", "l">>, <<"p", "a", "y", "p", "a", "l">>>>, <<<<"a", "p", "p", "l", "e">>, <<"a", "p", "p", "l", "e">>>>,
       <<<<"g", "o", "o", "g", "l", "e">>, <<"g", "o", "o", "g", "l", "e">>>>, <<<<"m", "i", "c", "r", "o", "s", "o", "f", "t">>, <<"m", "i", "c", "r", "o", "s", "o", "f", "t">>>>,
       <<<<"a", "m", "a", "z", "o", "n">>, <<"a", "m", "a", "z", "o", "n">>>>, <<<<"e", "b", "a", "y">>, <<"e", "b", "a", "y">>>>,
       <<<<"n", "e", "t", "f", "l", "i", "x">>, <<"n", "e", "t", "f", "l", "i", "x">>>>, <<<<"f", "a", "c", "e", "b", "o", "o", "k">>, <<"f", "a", "c", "e", "b", "o", "o", "k">>>>,
       <<<<"i", "n", "s", "t", "a", "g", "r", "a", "m">>, <<"i", "n", "s", "t", "a", "g", "r", "a", "m">>>>, <<<<"t", "w", "i", "t", "t", "e", "r">>, <<"t", "w", "i", "t", "t", "e", "r">>>>,
       <<<<"c", "h", "a", "s", "e">>, <<"c", "h", "a", "s", "e">>>>, <<<<"w", "e", "l", "l", "s", "f", "a", "r", "g", "o">>, <<"w", "e", "l", "l", "s", "f", "a", "r", "g", "o">>>>,
       <<<<"b", "a", "n", "k", "o", "f", "a", "m", "e", "r", "i", "c", "a">>, <<"b", "a", "n", "k", "o", "f", "a", "m", "e", "r", "i", "c", "a">>>> >>

LEET_MAP(c) ==
    CASE c = "0" -> "o" [] c = "1" -> "l" [] c = "3" -> "e" [] c = "4" -> "a"
      [] c = "5" -> "s" [] c = "6" -> "g" [] c = "7" -> "t" [] c = "8" -> "b"
      [] OTHER -> c

MULTI_TLDS ==
    { <<"c", "o", ".", "u", "k">>, <<"c", "o", ".", "n", "z">>, <<"c", "o", ".", "j", "p">>, <<"c", "o", "m", ".", "a", "u">>, <<"c", "o", "m", ".", "b", "r">>, <<"o", "r", "g", ".", "u", "k">>,
      <<"n", "e", "t", ".", "a", "u">> }

FEATURE_COLUMNS ==
    << "url_length", "path_length", "num_dots", "num_hyphens",
       "num_digits_in_domain", "num_slashes", "num_query_params",
       "num_subdomains", "domain_length", "url_entropy",
       "suspicious_keyword_count", "domain_age_days",
       "has_https", "has_ip_address", "has_at_symbol",
       "has_double_slash", "has_hex_encoding", "tld_is_high_risk",
       "brand_impersonation", "dns_resolves", "has_non_standard_port",
       "subdomain_count" >>

-----------------------------------------------------------------------------
(* Python str operations *)

UpperChars == <<"A", "B", "C", "D", "E", "F", "G", "H", "I", "J", "K", "L", "M", "N", "O", "P", "Q", "R", "S", "T", "U", "V", "W", "X", "Y", "Z">>
LowerChars == <<"a", "b", "c", "d", "e", "f", "g", "h", "i", "j", "k", "l", "m", "n", "o", "p", "q", "r", "s", "t", "u", "v", "w", "x", "y", "z">>
Digits == { "0", "1", "2", "3", "4", "5", "6", "7", "8", "9" }
HexDigits == Digits \cup { "a", "b", "c", "d", "e", "f", "A", "B", "C", "D", "E", "F" }
Whitespace == { " ", "\t", "\n", "\r" }

\* str.lower, one character
LowerChar(c) ==
    IF \E i \in 1..Len(UpperChars) : UpperChars[i] = c
    THEN LowerChars[CHOOSE i \in 1..Len(UpperChars) : UpperChars[i] = c]
    ELSE c

\* str.lower
Lower(s) == [i \in 1..Len(s) |-> LowerChar(s[i])]

\* s[i:] and s[:i] with Python's 0-based, end-exclusive indices
From(s, i) == SubSeq(s, i + 1, Len(s))
\* str.strip
Strip(s) ==
    LET keep == { i \in 1..Len(s) : s[i] \notin Whitespace }
    IN  IF keep = {} THEN EmptyStr
        ELSE SubSeq(s, CHOOSE i \in keep : \A j \in keep : i <= j,
                       CHOOSE i \in keep : \A j \in keep : i >= j)

\* str.startswith and str.endswith
StartsWith(s, p) == Len(s) >= Len(p) /\ SubSeq(s, 1, Len(p)) = p
EndsWith(s, p) == Len(s) >= Len(p) /\ SubSeq(s, Len(s) - Len(p) + 1, Len(s)) = p

\* sub in s
Contains(s, sub) ==
    \E i \in 1..(Len(s) - Len(sub) + 1) : SubSeq(s, i, i + Len(sub) - 1) = sub

\* str.find for one character, 1-based; 0 when absent
Find(s, c) ==
    IF \E i \in 1..Len(s) : s[i] = c
    THEN CHOOSE i \in 1..Len(s) : s[i] = c /\ \A j \in 1..(i - 1) : s[j] # c
    ELSE 0

\* str.rfind for one character, 1-based; 0 when absent
RFind(s, c) ==
    IF \E i \in 1..Len(s) : s[i] = c
    THEN CHOOSE i \in 1..Len(s) : s[i] = c /\ \A j \in (i + 1)..Len(s) : s[j] # c
    ELSE 0

\* s.count(c) for one character
Count(s, c) == Cardinality({ i \in 1..Len(s) : s[i] = c })

\* s.split(c) for a one-character separator
RECURSIVE Split(_, _)
Split(s, c) ==
    LET i == Find(s, c)
    IN  IF i = 0 THEN <<s>>
        ELSE <<SubSeq(s, 1, i - 1)>> \o Split(SubSeq(s, i + 1, Len(s)), c)

\* c.join(parts)
RECURSIVE Join(_, _)
Join(parts, c) ==
    IF Len(parts) = 0 THEN EmptyStr
    ELSE IF Len(parts) = 1 THEN parts[1]
    ELSE parts[1] \o <<c>> \o Join(Tail(parts), c)

\* int(s) for a string of decimal digits
DigitValue(c) ==
    CASE c = "0" -> 0 [] c = "1" -> 1 [] c = "2" -> 2 [] c = "3" -> 3
      [] c = "4" -> 4 [] c = "5" -> 5 [] c = "6" -> 6 [] c = "7" -> 7
      [] c = "8" -> 8 [] c = "9" -> 9

RECURSIVE ToInt(_)
ToInt(s) ==
    IF Len(s) = 0 THEN 0
    ELSE 10 * ToInt(SubSeq(s, 1, Len(s) - 1)) + DigitValue(s[Len(s)])

\* int(bool)
B2I(b) == IF b THEN 1 ELSE 0

Min(a, b) == IF a <= b THEN a ELSE b
Max(a, b) == IF a >= b THEN a ELSE b

-----------------------------------------------------------------------------
(* app/features.py *)

\* s.translate(LEET_MAP)
_normalize_leet(s) == [i \in 1..Len(s) |-> LEET_MAP(s[i])]

\* the split that always takes the last label as the tld, as if MULTI_TLDS
\* were empty
_parse_domain_parts_swapped(hostname) ==
    LET parts == Split(Lower(hostname), ".")
        n == Len(parts)
    IN  IF n = 1 THEN [subdomain |-> EmptyStr, domain |-> hostname, tld |-> EmptyStr]
        ELSE IF n = 2
        THEN [subdomain |-> EmptyStr, domain |-> parts[1], tld |-> parts[2]]
        ELSE [subdomain |-> Join(SubSeq(parts, 1, n - 2), "."),
              domain |-> parts[n - 1], tld |-> parts[n]]

_parse_domain_parts(hostname) ==
    LET parts == Split(Lower(hostname), ".")
        n == Len(parts)
        possible_multi == parts[n - 1] \o <<".">> \o parts[n]
    IN  IF n = 1 THEN [subdomain |-> EmptyStr, domain |-> hostname, tld |-> EmptyStr]
        ELSE IF n = 2
        THEN [subdomain |-> EmptyStr, domain |-> parts[1], tld |-> parts[2]]
        ELSE IF possible_multi \in MULTI_TLDS
        THEN [subdomain |-> IF n > 3 THEN Join(SubSeq(parts, 1, n - 3), ".")
                            ELSE EmptyStr,
              domain |-> IF n >= 3 THEN parts[n - 2] ELSE EmptyStr,
              tld |-> possible_multi]
        ELSE [subdomain |-> IF n > 2 THEN Join(SubSeq(parts, 1, n - 2), ".")
                            ELSE EmptyStr,
              domain |-> parts[n - 1],
              tld |-> parts[n]]

\* math.log2(k) for k = 1, 2, ..., in units of 1e-6
Log2Micro ==
    <<
       0, 1000000, 1584963, 2000000, 2321928, 2584963, 2807355, 3000000,
       3169925, 3321928, 3459432, 3584963, 3700440, 3807355, 3906891, 4000000,
       4087463, 4169925, 4247928, 4321928, 4392317, 4459432, 4523562, 4584963,
       4643856, 4700440, 4754888, 4807355, 4857981, 4906891, 4954196, 5000000,
       5044394, 5087463, 5129283, 5169925, 5209453, 5247928, 5285402, 5321928,
       5357552, 5392317, 5426265, 5459432, 5491853, 5523562, 5554589, 5584963,
       5614710, 5643856, 5672425, 5700440, 5727920, 5754888, 5781360, 5807355,
       5832890, 5857981, 5882643, 5906891, 5930737, 5954196, 5977280, 6000000,
       6022368, 6044394, 6066089, 6087463, 6108524, 6129283, 6149747, 6169925,
       6189825, 6209453, 6228819, 6247928, 6266787, 6285402, 6303781, 6321928,
       6339850, 6357552, 6375039, 6392317, 6409391, 6426265, 6442943, 6459432,
       6475733, 6491853, 6507795, 6523562, 6539159, 6554589, 6569856, 6584963,
       6599913, 6614710, 6629357, 6643856, 6658211, 6672425, 6686501, 6700440,
       6714246, 6727920, 6741467, 6754888, 6768184, 6781360, 6794416, 6807355,
       6820179, 6832890, 6845490, 6857981, 6870365, 6882643, 6894818, 6906891,
       6918863, 6930737, 6942515, 6954196, 6965784, 6977280, 6988685, 7000000,
       7011227, 7022368, 7033423, 7044394, 7055282, 7066089, 7076816, 7087463,
       7098032, 7108524, 7118941, 7129283, 7139551, 7149747, 7159871, 7169925,
       7179909, 7189825, 7199672, 7209453, 7219169, 7228819, 7238405, 7247928,
       7257388, 7266787, 7276124, 7285402, 7294621, 7303781, 7312883, 7321928 >>

RECURSIVE SumOver(_, _)
SumOver(S, f) ==
    IF S = {} THEN 0
    ELSE LET x == CHOOSE y \in S : TRUE
         IN  f[x] + SumOver(S \ {x}, f)

\* -sum(p * log2(p)) over the character frequencies of s, in units of 1e-6:
\* with n = len(s) and c = s.count(ch), p*log2(p) = (c/n)*(log2(c) - log2(n))
shannon_entropy(s) ==
    IF Len(s) = 0 THEN 0
    ELSE LET n == Len(s)
             chars == { s[i] : i \in 1..n }
             weighted == [ch \in chars |-> Count(s, ch) * Log2Micro[Count(s, ch)]]
         IN  Log2Micro[n] - (SumOver(chars, weighted) \div n)

\* round(x, 4) of a value in units of 1e-6, giving units of 1e-4
Round4(micro) == (micro + 50) \div 100

\* urllib.parse.urlparse(url) for a url without ";", "[" and "]":
\* scheme up to the first ":", netloc from "//" to the first of "/?#",
\* then fragment after "#", query after "?", and the rest is the path
urlparse(u) ==
    LET i == Find(u, ":")
        scheme == Lower(SubSeq(u, 1, i - 1))
        rest == SubSeq(u, i + 1, Len(u))
        has_netloc == StartsWith(rest, <<"/", "/">>)
        after == IF has_netloc THEN SubSeq(rest, 3, Len(rest)) ELSE rest
        stops == { j \in 1..Len(after) : after[j] \in { "/", "?", "#" } }
        delim == IF ~has_netloc THEN 1
                 ELSE IF stops = {} THEN Len(after) + 1
                 ELSE CHOOSE j \in stops : \A k \in stops : j <= k
        netloc == SubSeq(after, 1, delim - 1)
        rest2 == SubSeq(after, delim, Len(after))
        h == Find(rest2, "#")
        rest3 == IF h = 0 THEN rest2 ELSE SubSeq(rest2, 1, h - 1)
        q == Find(rest3, "?")
    IN  [scheme |-> scheme,
         netloc |-> netloc,
         path |-> IF q = 0 THEN rest3 ELSE SubSeq(rest3, 1, q - 1),
         query |-> IF q = 0 THEN EmptyStr ELSE SubSeq(rest3, q + 1, Len(rest3)),
         fragment |-> IF h = 0 THEN EmptyStr ELSE SubSeq(rest2, h + 1, Len(rest2))]

\* SplitResult._hostinfo: netloc.rpartition("@")[2].partition(":")
hostinfo(netloc) ==
    LET a == RFind(netloc, "@")
        hi == SubSeq(netloc, a + 1, Len(netloc))
        c == Find(hi, ":")
    IN  [hostname |-> IF c = 0 THEN hi ELSE SubSeq(hi, 1, c - 1),
         port |-> IF c = 0 THEN EmptyStr ELSE SubSeq(hi, c + 1, Len(hi))]

\* parsed.hostname or "": the lowercased host, "" when there is none
parsed_hostname(parsed) == Lower(hostinfo(parsed.netloc).hostname)

\* parsed.port: None for no port, the integer for a decimal port in 0..65535;
\* reading it raises ValueError otherwise
parsed_port(parsed) ==
    LET p == hostinfo(parsed.netloc).port
    IN  IF Len(p) = 0 THEN [raises |-> FALSE, value |-> <<>>]
        ELSE IF \E i \in 1..Len(p) : p[i] \notin Digits
        THEN [raises |-> TRUE, value |-> <<>>]
        ELSE IF ToInt(p) > 65535 THEN [raises |-> TRUE, value |-> <<>>]
        ELSE [raises |-> FALSE, value |-> <<ToInt(p)>>]

\* len(urllib.parse.parse_qs(query)): the distinct names of the "name=value"
\* fields separated by "&" whose value is not blank (no escapes in the names)
parse_qs_len(query) ==
    LET fields == Split(query, "&")
        named == { i \in 1..Len(fields) :
                     /\ Find(fields[i], "=") # 0
                     /\ Find(fields[i], "=") < Len(fields[i]) }
    IN  Cardinality({ SubSeq(fields[i], 1, Find(fields[i], "=") - 1) : i \in named })

\* re.match(r"^\d{1,3}(\.\d{1,3}){3}$", hostname)
is_ip_literal(hostname) ==
    LET groups == Split(hostname, ".")
    IN  /\ Len(groups) = 4
        /\ \A g \in 1..4 :
              /\ Len(groups[g]) \in 1..3
              /\ \A i \in 1..Len(groups[g]) : groups[g][i] \in Digits

\* re.search(r"%[0-9a-fA-F]{2}", url)
is_hex_encoded(u) ==
    \E i \in 1..(Len(u) - 2) :
        u[i] = "%" /\ u[i + 1] \in HexDigits /\ u[i + 2] \in HexDigits

\* the two passes without the test kw not in matched_keywords
match_keywords_without_dedup(url_lower, url_normalized) ==
    LET InRaw(kw) == Contains(url_lower, kw)
        InNorm(kw) == Contains(url_normalized, kw)
    IN  SelectSeq(SUSPICIOUS_KEYWORDS, InRaw)
        \o SelectSeq(SUSPICIOUS_KEYWORDS, InNorm)

\* the keywords of the raw url in table order, then those only the
\* leet-normalized url has, in table order
match_keywords(url_lower, url_normalized) ==
    LET InRaw(kw) == Contains(url_lower, kw)
        matched == SelectSeq(SUSPICIOUS_KEYWORDS, InRaw)
        InNormOnly(kw) ==
            /\ Contains(url_normalized, kw)
            /\ \A i \in 1..Len(matched) : matched[i] # kw
    IN  matched \o SelectSeq(SUSPICIOUS_KEYWORDS, InNormOnly)

\* the loop with check 2 (the leet-normalized domain) left out
RECURSIVE brand_loop_without_check2(_, _, _, _, _)
brand_loop_without_check2(i, url_lower, url_normalized, domain, domain_normalized) ==
    IF i > Len(BRAND_DOMAINS) THEN FALSE
    ELSE LET brand == BRAND_DOMAINS[i][1]
             brand_domain == BRAND_DOMAINS[i][2]
         IN  IF Contains(url_lower, brand) /\ domain # brand_domain THEN TRUE
             ELSE IF /\ Contains(url_normalized, brand)
                     /\ domain # brand_domain
                     /\ domain_normalized # brand_domain
             THEN TRUE
             ELSE brand_loop_without_check2(i + 1, url_lower, url_normalized,
                                            domain, domain_normalized)

\* the loop over BRAND_DOMAINS.items(), from item i on, left at the first hit
RECURSIVE brand_loop(_, _, _, _, _)
brand_loop(i, url_lower, url_normalized, domain, domain_normalized) ==
    IF i > Len(BRAND_DOMAINS) THEN FALSE
    ELSE LET brand == BRAND_DOMAINS[i][1]
             brand_domain == BRAND_DOMAINS[i][2]
         IN  IF Contains(url_lower, brand) /\ domain # brand_domain THEN TRUE
             ELSE IF domain_normalized = brand_domain /\ domain # brand_domain
             THEN TRUE
             ELSE IF /\ Contains(url_normalized, brand)
                     /\ domain # brand_domain
                     /\ domain_normalized # brand_domain
             THEN TRUE
             ELSE brand_loop(i + 1, url_lower, url_normalized, domain,
                             domain_normalized)

\* url.strip() and the scheme default of extract_features
PrefixHttps(u) == <<"h", "t", "t", "p", "s", ":", "/", "/">> \o u

PrefixHttp(u) == <<"h", "t", "t", "p", ":", "/", "/">> \o u

HasScheme(u) == StartsWith(u, <<"h", "t", "t", "p", ":", "/", "/">>) \/ StartsWith(u, <<"h", "t", "t", "p", "s", ":", "/", "/">>)

extract_normalize(raw) ==
    LET u == Strip(raw)
    IN  IF ~HasScheme(u) THEN PrefixHttp(u) ELSE u

\* extract_features up to the brand check: everything computed from the
\* url text alone
extract_locals(raw) ==
    LET u == extract_normalize(raw)
        parsed == urlparse(u)
        scheme == Lower(parsed.scheme)
        hostname == parsed_hostname(parsed)
        path == parsed.path
        query == parsed.query
        dp == _parse_domain_parts(hostname)
        subdomain == dp.subdomain
        domain == dp.domain
        tld == dp.tld
        url_lower == Lower(u)
        domain_normalized == _normalize_leet(domain)
        url_normalized == _normalize_leet(url_lower)
        subdomain_parts ==
            IF Len(subdomain) > 0
            THEN SelectSeq(Split(subdomain, "."), LAMBDA s : Len(s) > 0)
            ELSE <<>>
        matched_keywords == match_keywords(url_lower, url_normalized)
    IN  [url |-> u,
         parsed |-> parsed,
         scheme |-> scheme,
         hostname |-> hostname,
         subdomain |-> subdomain,
         domain |-> domain,
         tld |-> tld,
         has_https |-> scheme = <<"h", "t", "t", "p", "s">>,
         url_length |-> Len(u),
         path_length |-> Len(path),
         num_dots |-> Count(u, "."),
         num_hyphens |-> Count(domain, "-") + Count(subdomain, "-"),
         num_digits_in_domain |->
             Cardinality({ i \in 1..Len(domain) : domain[i] \in Digits }),
         num_slashes |-> Count(path, "/"),
         num_query_params |-> parse_qs_len(query),
         has_ip_address |-> is_ip_literal(hostname),
         has_at_symbol |-> Contains(u, <<"@">>),
         has_double_slash |-> Contains(path, <<"/", "/">>),
         has_hex_encoding |-> is_hex_encoded(u),
         num_subdomains |-> Len(subdomain_parts),
         domain_length |-> Len(domain),
         url_entropy |-> Round4(shannon_entropy(u)),
         tld_is_high_risk |-> tld \in HIGH_RISK_TLDS,
         matched_keywords |-> matched_keywords,
         suspicious_keyword_count |-> Len(matched_keywords),
         brand_impersonation |->
             brand_loop(1, url_lower, url_normalized, domain, domain_normalized),
         registered_domain |->
             IF Len(domain) > 0 /\ Len(tld) > 0
             THEN domain \o <<".">> \o tld ELSE hostname,
         domain_age_days |-> -1,
         domain_created_str |-> <<"Unknown">>,
         dns_resolves |-> FALSE]

\* the features dict built at the end of extract_features
build_features(x, has_non_standard_port) ==
    [url_length |-> x.url_length,
     path_length |-> x.path_length,
     num_dots |-> x.num_dots,
     num_hyphens |-> x.num_hyphens,
     num_digits_in_domain |-> x.num_digits_in_domain,
     num_slashes |-> x.num_slashes,
     num_query_params |-> x.num_query_params,
     num_subdomains |-> x.num_subdomains,
     subdomain_count |-> x.num_subdomains,
     domain_length |-> x.domain_length,
     url_entropy |-> x.url_entropy,
     suspicious_keyword_count |-> x.suspicious_keyword_count,
     domain_age_days |-> x.domain_age_days,
     has_https |-> B2I(x.has_https),
     has_ip_address |-> B2I(x.has_ip_address),
     has_at_symbol |-> B2I(x.has_at_symbol),
     has_double_slash |-> B2I(x.has_double_slash),
     has_hex_encoding |-> B2I(x.has_hex_encoding),
     tld_is_high_risk |-> B2I(x.tld_is_high_risk),
     brand_impersonation |-> B2I(x.brand_impersonation),
     dns_resolves |-> B2I(x.dns_resolves),
     has_non_standard_port |-> B2I(has_non_standard_port)]

\* the meta dict built at the end of extract_features
build_meta(x) ==
    [protocol |-> x.scheme,
     hostname |-> x.hostname,
     tld |-> x.tld,
     domain |-> x.domain,
     subdomain |-> x.subdomain,
     suspicious_keywords |-> x.matched_keywords,
     domain_created |-> x.domain_created_str]

-----------------------------------------------------------------------------
(* app/scorer.py: compute_risk_breakdown *)

\* one flags.append({...}); the description is kept as the live values it
\* embeds: the numbers, and the strings (tld, keywords)
Flag(severity, title, feature, values, words) ==
    [severity |-> severity, title |-> title, feature |-> feature,
     description |-> [values |-> values, words |-> words]]

\* what an if-block of the scorer adds: points and the flags it appends
Rule(cond, pts, flags) ==
    IF cond THEN [pts |-> pts, flags |-> flags] ELSE [pts |-> 0, flags |-> <<>>]

\* if / elif / else chains: the first block whose condition holds
FirstOf2(c1, r1, c2, r2) ==
    IF c1 THEN r1 ELSE IF c2 THEN r2 ELSE [pts |-> 0, flags |-> <<>>]

RECURSIVE SumPts(_)
SumPts(rules) ==
    IF Len(rules) = 0 THEN 0 ELSE rules[1].pts + SumPts(Tail(rules))

RECURSIVE CatFlags(_)
CatFlags(rules) ==
    IF Len(rules) = 0 THEN <<>> ELSE rules[1].flags \o CatFlags(Tail(rules))

\* section 1, URL Structure: the rules in source order
url_rules(f) ==
    << Rule(f.has_https = 0, 8,
            <<Flag("red", "No HTTPS", "has_https", <<>>, <<>>)>>),
       FirstOf2(f.url_length > 100,
                [pts |-> Min(10, ((f.url_length - 100) \div 20) * 3 + 3),
                 flags |-> <<Flag("red", "Excessively Long URL", "url_length",
                                  <<f.url_length>>, <<>>)>>],
                f.url_length > 75,
                [pts |-> 3,
                 flags |-> <<Flag("yellow", "Moderately Long URL", "url_length",
                                  <<f.url_length>>, <<>>)>>]),
       Rule(f.has_ip_address # 0, 10,
            <<Flag("red", "IP Address Used Instead of Domain", "has_ip_address",
                   <<>>, <<>>)>>),
       FirstOf2(f.num_hyphens >= 3,
                [pts |-> 5,
                 flags |-> <<Flag("yellow", "Excessive Hyphens in Domain",
                                  "num_hyphens", <<f.num_hyphens>>, <<>>)>>],
                f.num_hyphens >= 1,
                [pts |-> 2, flags |-> <<>>]),
       Rule(f.has_at_symbol # 0, 7,
            <<Flag("red", "@ Symbol in URL", "has_at_symbol", <<>>, <<>>)>>),
       Rule(f.has_double_slash # 0, 4,
            <<Flag("yellow", "Double Slash in Path", "has_double_slash", <<>>, <<>>)>>),
       Rule(f.has_hex_encoding # 0, 4,
            <<Flag("yellow", "Hex / Percent Encoding Detected",
                   "has_hex_encoding", <<>>, <<>>)>>),
       FirstOf2(f.num_subdomains >= 3,
                [pts |-> 6,
                 flags |-> <<Flag("red", "Excessive Subdomains", "num_subdomains",
                                  <<f.num_subdomains>>, <<>>)>>],
                f.num_subdomains = 2,
                [pts |-> 3, flags |-> <<>>]),
       Rule(f.has_non_standard_port # 0, 5,
            <<Flag("yellow", "Non-Standard Port", "has_non_standard_port",
                   <<>>, <<>>)>>) >>

\* the chain with its first elif written as a second if: the block for -1
\* and then the chain from age < 7 on
age_rule_second_if(age) ==
    LET first == IF age = -1
                 THEN [pts |-> 5,
                       flags |-> <<Flag("yellow", "WHOIS Unavailable",
                                        "domain_age_days", <<>>, <<>>)>>]
                 ELSE [pts |-> 0, flags |-> <<>>]
        second == IF age < 7
                  THEN [pts |-> 12,
                        flags |-> <<Flag("red", "Brand-New Domain (< 7 days)",
                                         "domain_age_days", <<age>>, <<>>)>>]
                  ELSE IF age < 30
                  THEN [pts |-> 8,
                        flags |-> <<Flag("red", "Very New Domain (< 30 days)",
                                         "domain_age_days", <<age>>, <<>>)>>]
                  ELSE IF age < 180
                  THEN [pts |-> 3,
                        flags |-> <<Flag("yellow", "Relatively New Domain",
                                         "domain_age_days",
                                         <<age, age \div 30>>, <<>>)>>]
                  ELSE [pts |-> 0,
                        flags |-> <<Flag("green", "Established Domain",
                                         "domain_age_days", <<age>>, <<>>)>>]
    IN  [pts |-> first.pts + second.pts, flags |-> first.flags \o second.flags]

\* the domain-age chain: if age == -1 / elif age < 7 / elif age < 30 /
\* elif age < 180 / else
age_rule(age) ==
    IF age = -1
    THEN [pts |-> 5,
          flags |-> <<Flag("yellow", "WHOIS Unavailable", "domain_age_days",
                           <<>>, <<>>)>>]
    ELSE IF age < 7
    THEN [pts |-> 12,
          flags |-> <<Flag("red", "Brand-New Domain (< 7 days)",
                           "domain_age_days", <<age>>, <<>>)>>]
    ELSE IF age < 30
    THEN [pts |-> 8,
          flags |-> <<Flag("red", "Very New Domain (< 30 days)",
                           "domain_age_days", <<age>>, <<>>)>>]
    ELSE IF age < 180
    THEN [pts |-> 3,
          flags |-> <<Flag("yellow", "Relatively New Domain", "domain_age_days",
                           <<age, age \div 30>>, <<>>)>>]
    ELSE [pts |-> 0,
          flags |-> <<Flag("green", "Established Domain", "domain_age_days",
                           <<age>>, <<>>)>>]

\* section 2, Domain Intelligence
domain_rules(f, m) ==
    << Rule(f.tld_is_high_risk # 0, 12,
            <<Flag("red", "High-Abuse TLD", "tld_is_high_risk", <<>>, <<m.tld>>)>>),
       Rule(f.brand_impersonation # 0, 15,
            <<Flag("red", "Brand Impersonation", "brand_impersonation", <<>>, <<>>)>>),
       age_rule(f.domain_age_days) >>

\* section 3, Content Analysis
content_rules(f, m) ==
    LET kw_count == f.suspicious_keyword_count
        kws == m.suspicious_keywords
    IN  << IF kw_count >= 3
           THEN [pts |-> 10,
                 flags |-> <<Flag("red", "Multiple Credential-Themed Keywords",
                                  "suspicious_keyword_count",
                                  <<kw_count>>, SubSeq(kws, 1, Min(3, Len(kws))))>>]
           ELSE IF kw_count = 2
           THEN [pts |-> 6,
                 flags |-> <<Flag("yellow", "Suspicious Keywords",
                                  "suspicious_keyword_count", <<>>, kws)>>]
           ELSE IF kw_count = 1
           THEN [pts |-> 3,
                 flags |-> <<Flag("yellow", "One Suspicious Keyword",
                                  "suspicious_keyword_count", <<>>, kws)>>]
           ELSE [pts |-> 0, flags |-> <<>>],
           \* url_entropy > 5.0, the entropy in units of 1e-4
           Rule(f.url_entropy > 50000, 5,
                <<Flag("yellow", "High URL Entropy", "url_entropy",
                       <<f.url_entropy>>, <<>>)>>) >>

\* section 4 with the dns_resolves rule left out
behavioral_rules_without_dns(f) ==
    << Rule(FALSE, 5, <<>>),
       Rule(f.has_https # 0, 0,
            <<Flag("green", "HTTPS Enabled", "has_https", <<>>, <<>>)>>) >>

\* section 4, Behavioral
behavioral_rules(f) ==
    << Rule(f.dns_resolves = 0, 5,
            <<Flag("yellow", "DNS Does Not Resolve", "dns_resolves", <<>>, <<>>)>>),
       Rule(f.has_https # 0, 0,
            <<Flag("green", "HTTPS Enabled", "has_https", <<>>, <<>>)>>) >>

\* the scores and flags at the start when flags = [] is a module-level list
\* that every call appends to
bd_start_shared ==
    [url_score |-> 0, domain_score |-> 0, content_score |-> 0,
     behavioral_score |-> 0, total |-> 0,
     flags |-> IF Len(earlier) = 0 THEN <<>> ELSE earlier[1].bd.flags]

\* the locals of compute_risk_breakdown when it starts: url_score = 0, flags = []
bd_start ==
    [url_score |-> 0, domain_score |-> 0, content_score |-> 0,
     behavioral_score |-> 0, total |-> 0, flags |-> <<>>]

\* url_score = min(url_score, 40) after the section's rules
score_url(b, f) ==
    LET rules == url_rules(f)
    IN  [b EXCEPT !.url_score = Min(SumPts(rules), 40),
                  !.flags = b.flags \o CatFlags(rules)]

\* section 2 with the min(domain_score, 35) left out
score_domain_uncapped(b, f, m) ==
    [b EXCEPT !.domain_score = SumPts(domain_rules(f, m)),
              !.flags = b.flags \o CatFlags(domain_rules(f, m))]

\* section 2 with flags.insert(0, ...) in place of flags.append(...)
score_domain_prepend(b, f, m) ==
    [b EXCEPT !.domain_score = Min(SumPts(domain_rules(f, m)), 35),
              !.flags = CatFlags(domain_rules(f, m)) \o b.flags]

\* domain_score = min(domain_score, 35)
score_domain(b, f, m) ==
    LET rules == domain_rules(f, m)
    IN  [b EXCEPT !.domain_score = Min(SumPts(rules), 35),
                  !.flags = b.flags \o CatFlags(rules)]

\* content_score = min(content_score, 15)
score_content(b, f, m) ==
    LET rules == content_rules(f, m)
    IN  [b EXCEPT !.content_score = Min(SumPts(rules), 15),
                  !.flags = b.flags \o CatFlags(rules)]

\* behavioral_score = min(behavioral_score, 10), then the total
score_behavioral(b, f) ==
    LET rules == behavioral_rules(f)
        s == Min(SumPts(rules), 10)
    IN  [b EXCEPT !.behavioral_score = s,
                  !.total = b.url_score + b.domain_score + b.content_score + s,
                  !.flags = b.flags \o CatFlags(rules)]

-----------------------------------------------------------------------------
(* app/main.py *)

RuleBased == <<"r", "u", "l", "e", "-", "b", "a", "s", "e", "d">>
MlModel == <<"m", "l", "-", "m", "o", "d", "e", "l">>
OverrideSuffix == <<"+", "o", "v", "e", "r", "r", "i", "d", "e">>
PHISHING == "PHISHING"
LEGITIMATE == "LEGITIMATE"

\* what the files under app/model/ make of _load_model: the values of
\* _model, _scaler and _engine_name it leaves
LoadOutcomes ==
    { \* MODEL_PATH or SCALER_PATH is missing, or joblib.load(MODEL_PATH) raises
      [model |-> FALSE, scaler |-> FALSE, engine |-> RuleBased],
      \* joblib.load(SCALER_PATH) raises after _model was assigned
      [model |-> TRUE, scaler |-> FALSE, engine |-> RuleBased],
      \* reading or parsing META_PATH raises after both were assigned
      [model |-> TRUE, scaler |-> TRUE, engine |-> RuleBased],
      \* no META_PATH, or a meta without the key "engine"
      [model |-> TRUE, scaler |-> TRUE, engine |-> MlModel],
      \* the meta.json train_model.py writes
      [model |-> TRUE, scaler |-> TRUE, engine |-> <<"x", "g", "b", "o", "o", "s", "t">>] }

\* round(): to the nearest integer, a tie to the even one; num/den with den > 0
RoundHalfEven(num, den) ==
    LET q == num \div den
        r == num % den
    IN  IF 2 * r > den THEN q + 1
        ELSE IF 2 * r < den THEN q
        ELSE IF q % 2 = 0 THEN q ELSE q + 1

red_flags(flags) ==
    Cardinality({ i \in 1..Len(flags) : flags[i].severity = "red" })

\* step 4 with the safety-net branch left out
combine_ml_no_override(rule_score, flags, k, engine_name) ==
    [risk_score |-> Max(0, Min(100,
         RoundHalfEven(300 * k + 2 * rule_score * PDen, 5 * PDen))),
     confidence |-> RoundHalfEven(
         (IF 2 * k > PDen THEN k ELSE PDen - k) * 10000, PDen),
     verdict |-> IF 2 * k >= PDen THEN PHISHING ELSE LEGITIMATE,
     engine |-> engine_name]

\* step 4 with int(...) in place of round(...)
combine_ml_truncating(rule_score, flags, k, engine_name) ==
    LET risk_score == (300 * k + 2 * rule_score * PDen) \div (5 * PDen)
        confidence == IF 2 * k > PDen THEN k ELSE PDen - k
        verdict == IF 2 * k >= PDen THEN PHISHING ELSE LEGITIMATE
        override == red_flags(flags) >= 3 /\ verdict = LEGITIMATE
    IN  [risk_score |-> Max(0, Min(100,
             IF override THEN Max(risk_score, 75) ELSE risk_score)),
         confidence |->
             IF override
             THEN Max(RoundHalfEven(confidence * 10000, PDen), 8500)
             ELSE RoundHalfEven(confidence * 10000, PDen),
         verdict |-> IF override THEN PHISHING ELSE verdict,
         engine |-> IF override THEN engine_name \o OverrideSuffix
                    ELSE engine_name]

\* step 4 of analyze_url with a model probability k/PDen
combine_ml(rule_score, flags, k, engine_name) ==
    LET \* round(ml_prob * 60 + rule_score * 0.4)
        risk_score == RoundHalfEven(300 * k + 2 * rule_score * PDen, 5 * PDen)
        \* ml_prob if ml_prob > 0.5 else 1 - ml_prob, as a numerator over PDen
        confidence == IF 2 * k > PDen THEN k ELSE PDen - k
        verdict == IF 2 * k >= PDen THEN PHISHING ELSE LEGITIMATE
        danger_flags == red_flags(flags)
        override == danger_flags >= 3 /\ verdict = LEGITIMATE
    IN  [risk_score |-> Max(0, Min(100,
             IF override THEN Max(risk_score, 75) ELSE risk_score)),
         \* round(confidence, 4) in units of 1e-4; max(confidence, 0.85)
         confidence |->
             IF override
             THEN Max(RoundHalfEven(confidence * 10000, PDen), 8500)
             ELSE RoundHalfEven(confidence * 10000, PDen),
         verdict |-> IF override THEN PHISHING ELSE verdict,
         engine |-> IF override THEN engine_name \o OverrideSuffix
                    ELSE engine_name]

\* the rule-based branch with the threshold at 50
combine_rules_threshold50(rule_score) ==
    [risk_score |-> Max(0, Min(100, rule_score)),
     confidence |-> Min(5000 + 50 * rule_score, 9700),
     verdict |-> IF rule_score >= 50 THEN PHISHING ELSE LEGITIMATE,
     engine |-> RuleBased]

\* step 4 of analyze_url without a model probability
combine_rules(rule_score) ==
    [risk_score |-> Max(0, Min(100, rule_score)),
     \* round(min(0.5 + rule_score / 200.0, 0.97), 4) in units of 1e-4
     confidence |-> Min(5000 + 50 * rule_score, 9700),
     verdict |-> IF rule_score >= 45 THEN PHISHING ELSE LEGITIMATE,
     engine |-> RuleBased]

-----------------------------------------------------------------------------
(* Inputs *)

Schemes == { EmptyStr, <<"h", "t", "t", "p", ":", "/", "/">>, <<"h", "t", "t", "p", "s", ":", "/", "/">> }

Hosts ==
    { EmptyStr, <<"e", "x", "a", "m", "p", "l", "e", ".", "c", "o", "m">>, <<"1", ".", "2", ".", "3", ".", "4">>, <<"p", "a", "y", "p", "a", "1", ".", "t", "k">>,
      <<"s", "e", "c", "u", "r", "e", "-", "p", "a", "y", "p", "a", "l", "-", "l", "o", "g", "i", "n", ".", "t", "k">>, <<"a", ".", "b", ".", "c", ".", "m", "a", "i", "l", ".", "c", "o", ".", "u", "k">> }

Ports == { EmptyStr, <<":", "8", "0", "8", "0">> }

Paths == { EmptyStr, <<"/", "v", "e", "r", "i", "f", "y", "/", "a", "c", "c", "o", "u", "n", "t">>, <<"/", "/", "x", "%", "4", "1", "?", "a", "=", "1", "&", "b", "=", "2">> }

LongPath ==
    <<"/", "w", "i", "k", "i", "/">> \o [i \in 1..90 |-> "a"]

SpecialUrls ==
    { <<" ">>, <<" ", "	", " ">>, <<" ", " ", "e", "x", "a", "m", "p", "l", "e", ".", "c", "o", "m", " ">>, <<" ", "h", "t", "t", "p", ":", "/", "/", "e", "x", "a", "m", "p", "l", "e", ".", "c", "o", "m", "/", "l", "o", "g", "i", "n">>,
      <<"H", "T", "T", "P", ":", "/", "/", "E", "x", "a", "m", "p", "l", "e", ".", "C", "O", "M", "/">>, <<"h", "t", "t", "p", ":", "/", "/", "/", "p", "a", "t", "h">>,
      <<"e", "x", "a", "m", "p", "l", "e", ".", "c", "o", "m", ":", "9", "9", "9", "9", "9">>, <<"h", "t", "t", "p", "s", ":", "/", "/", "e", "x", "a", "m", "p", "l", "e", ".", "c", "o", "m", ":", "x", "1", "/">>,
      <<"h", "t", "t", "p", ":", "/", "/", "e", "x", "a", "m", "p", "l", "e", ".", "c", "o", "m", ":", "4", "4", "3", "/">>,
      <<"u", "s", "e", "r", "@", "e", "v", "i", "l", ".", "x", "y", "z", "/", "l", "o", "g", "i", "n">>,
      <<"h", "t", "t", "p", "s", ":", "/", "/", "w", "w", "w", ".", "w", "i", "k", "i", "p", "e", "d", "i", "a", ".", "o", "r", "g", "/", "w", "i", "k", "i", "/", "P", "h", "i", "s", "h", "i", "n", "g">>,
      <<"h", "t", "t", "p", "s", ":", "/", "/", "w", "w", "w", ".", "w", "i", "k", "i", "p", "e", "d", "i", "a", ".", "o", "r", "g">> \o LongPath,
      <<"h", "t", "t", "p", ":", "/", "/", "a", "-", "b", "-", "c", "-", "d", ".", "s", "i", "g", "n", "i", "n", ".", "u", "p", "d", "a", "t", "e", ".", "b", "a", "n", "k", ".", "x", "y", "z">> \o LongPath,
      <<"h", "t", "t", "p", ":", "/", "/", "p", "a", "y", "p", "a", "l", ".", "c", "o", "m">>, <<"h", "t", "t", "p", ":", "/", "/", "p", "a", "y", "p", "a", "1", ".", "c", "o", "m">>,
      <<"h", "t", "t", "p", ":", "/", "/", "e", "x", "a", "m", "p", "l", "e", ".", "c", "o", "m", "/", "p", "a", "y", "p", "a", "1">>, <<"h", "t", "t", "p", ":", "/", "/", "e", "x", "a", "m", "p", "l", "e", ".", "c", "o", "m", "/", "l", "0", "g", "i", "n", "/", "v", "e", "r", "i", "f", "y">> }

\* the url strings a caller sends
Urls ==
    { s \o h \o p \o q : s \in Schemes, h \in Hosts, p \in Ports, q \in Paths }
    \cup SpecialUrls

\* (datetime.now(timezone.utc) - creation_date).days of the dates WHOIS gives
WhoisAges == { -1, 3, 10, 100, 200 }

\* the hostnames given to _parse_domain_parts: labels joined by "."
Labels ==
    { EmptyStr, <<"m", "a", "i", "l">>, <<"g", "o", "o", "g", "l", "e">>, <<"e", "x", "a", "m", "p", "l", "e">>, <<"c", "o", "m">>, <<"C", "O", "M">>, <<"f", "o", "o">>,
      <<"b", "a", "r">>, <<"c", "o">>, <<"u", "k">> }

RECURSIVE LabelSeqs(_)
LabelSeqs(n) ==
    IF n = 0 THEN { <<>> }
    ELSE LabelSeqs(n - 1)
         \cup { Append(ls, l) : ls \in { x \in LabelSeqs(n - 1) : Len(x) = n - 1 },
                               l \in Labels }

Hostnames == { Join(ls, ".") : ls \in LabelSeqs(MaxLabels) }

\* The feature records given to compute_risk_breakdown.  url_length,
\* num_hyphens and num_subdomains take a value of each of their three tiers,
\* every two tiers of two of them together in some record
CountTiers ==
    { <<60, 0, 0>>, <<60, 1, 3>>, <<60, 3, 2>>,
      <<90, 0, 3>>, <<90, 1, 2>>, <<90, 3, 0>>,
      <<180, 0, 2>>, <<180, 1, 0>>, <<180, 3, 3>> }

\* the other fields the scorer reads: every tier of each, in every combination
ScoredFields ==
    [url_entropy : { 41000, 52000 },
     suspicious_keyword_count : 0..3,
     domain_age_days : { -1, 3, 10, 100, 200 },
     has_https : { 0, 1 }, has_ip_address : { 0, 1 },
     has_at_symbol : { 0, 1 }, has_double_slash : { 0, 1 },
     has_hex_encoding : { 0, 1 }, tld_is_high_risk : { 0, 1 },
     brand_impersonation : { 0, 1 }, dns_resolves : { 0, 1 },
     has_non_standard_port : { 0, 1 }]

FeatureRecord(t, r) ==
    [url_length |-> t[1], path_length |-> 0, num_dots |-> 1,
     num_hyphens |-> t[2], num_digits_in_domain |-> 0, num_slashes |-> 0,
     num_query_params |-> 0, num_subdomains |-> t[3],
     subdomain_count |-> t[3], domain_length |-> 7,
     url_entropy |-> r.url_entropy,
     suspicious_keyword_count |-> r.suspicious_keyword_count,
     domain_age_days |-> r.domain_age_days,
     has_https |-> r.has_https, has_ip_address |-> r.has_ip_address,
     has_at_symbol |-> r.has_at_symbol,
     has_double_slash |-> r.has_double_slash,
     has_hex_encoding |-> r.has_hex_encoding,
     tld_is_high_risk |-> r.tld_is_high_risk,
     brand_impersonation |-> r.brand_impersonation,
     dns_resolves |-> r.dns_resolves,
     has_non_standard_port |-> r.has_non_standard_port]

\* a metadata record that goes with a feature record
MetaFor(f) ==
    [protocol |-> IF f.has_https = 1 THEN <<"h", "t", "t", "p", "s">> ELSE <<"h", "t", "t", "p">>,
     hostname |-> EmptyStr,
     tld |-> IF f.tld_is_high_risk = 1 THEN <<"t", "k">> ELSE <<"c", "o", "m">>,
     domain |-> EmptyStr,
     subdomain |-> EmptyStr,
     suspicious_keywords |-> SubSeq(SUSPICIOUS_KEYWORDS, 1,
                                    f.suspicious_keyword_count),
     domain_created |-> <<"Unknown">>]

-----------------------------------------------------------------------------
(* State machine *)

Blank == <<>>
NoResponse == [kind |-> "none"]
NoLookups == [whois |-> "none", dns |-> "none"]

Init ==
    /\ _model = FALSE
    /\ _scaler = FALSE
    /\ _engine_name = RuleBased
    /\ pc = "load"
    /\ entry = "none"
    /\ input = EmptyStr
    /\ url = Blank
    /\ ext = Blank
    /\ features = Blank
    /\ meta = Blank
    /\ bd = Blank
    /\ ml_prob = Blank
    /\ env = NoLookups
    /\ response = NoResponse
    /\ defaulttimeout = Blank
    /\ earlier = <<>>

\* _load_model(), run once at import
_load_model ==
    /\ pc = "load"
    /\ \E o \in LoadOutcomes :
          /\ _model' = o.model
          /\ _scaler' = o.scaler
          /\ _engine_name' = o.engine
    /\ pc' = "idle"
    /\ UNCHANGED <<entry, input, url, ext, features, meta, bd, ml_prob, env,
                   response, defaulttimeout, earlier>>

\* a caller posts a url to /api/v1/analyze
PostAnalyze ==
    /\ pc = "idle"
    /\ \E u \in Urls : input' = u
    /\ entry' = "analyze_url"
    /\ pc' = "validate"
    /\ UNCHANGED <<_model, _scaler, _engine_name, url, ext, features, meta, bd,
                   ml_prob, env, response,
                   defaulttimeout, earlier>>

\* a caller calls extract_features(url)
CallExtractFeatures ==
    /\ pc = "idle"
    /\ \E u \in Urls : input' = u /\ url' = u
    /\ entry' = "extract_features"
    /\ pc' = "extract"
    /\ UNCHANGED <<_model, _scaler, _engine_name, ext, features, meta, bd,
                   ml_prob, env, response,
                   defaulttimeout, earlier>>

\* the call returns or raises r
Return(r) ==
    /\ response' = r
    /\ pc' = "done"

\* the caller has its answer; the process waits for the next call
Finish ==
    /\ pc = "done"
    /\ pc' = "idle"
    /\ entry' = "none"
    /\ input' = EmptyStr
    /\ url' = Blank
    /\ ext' = Blank
    /\ features' = Blank
    /\ meta' = Blank
    /\ bd' = Blank
    /\ ml_prob' = Blank
    /\ env' = NoLookups
    /\ response' = NoResponse
    /\ UNCHANGED <<_model, _scaler, _engine_name,
                   defaulttimeout, earlier>>

\* the validator with v.strip() left out
url_must_not_be_empty_unstripped ==
    /\ pc = "validate"
    /\ LET v == input
       IN  IF Len(v) = 0
           THEN /\ Return([kind |-> "error", status |-> 422,
                           detail |-> "url must not be empty"])
                /\ UNCHANGED url
           ELSE /\ url' = v
                /\ pc' = "analyze"
                /\ UNCHANGED response
    /\ UNCHANGED <<_model, _scaler, _engine_name, entry, input, ext, features,
                   meta, bd, ml_prob, env,
                   defaulttimeout, earlier>>

\* AnalyzeRequest.url_must_not_be_empty
url_must_not_be_empty ==
    /\ pc = "validate"
    /\ LET v == Strip(input)
       IN  IF Len(v) = 0
           THEN /\ Return([kind |-> "error", status |-> 422,
                           detail |-> "url must not be empty"])
                /\ UNCHANGED url
           ELSE /\ url' = v
                /\ pc' = "analyze"
                /\ UNCHANGED response
    /\ UNCHANGED <<_model, _scaler, _engine_name, entry, input, ext, features,
                   meta, bd, ml_prob, env,
                   defaulttimeout, earlier>>

\* analyze_url, its first lines: strip and the scheme default
analyze_url_normalize ==
    /\ pc = "analyze"
    /\ url' = (LET u == Strip(url)
               IN  IF ~HasScheme(u) THEN PrefixHttps(u) ELSE u)
    /\ pc' = "extract"
    /\ UNCHANGED <<_model, _scaler, _engine_name, entry, input, ext, features,
                   meta, bd, ml_prob, env, response,
                   defaulttimeout, earlier>>

\* extract_features, up to the brand check
extract_features_locals ==
    /\ pc = "extract"
    /\ ext' = extract_locals(url)
    /\ pc' = "whois"
    /\ UNCHANGED <<_model, _scaler, _engine_name, entry, input, url, features,
                   meta, bd, ml_prob, env, response,
                   defaulttimeout, earlier>>

\* the answers of the WHOIS lookup: "raises" when import whois or
\* whois.whois() raises (no package, timeout, refused), "no_date" when the
\* record has no usable creation_date, "found" with the age in days
WhoisAnswers ==
    { [kind |-> "raises", age |-> 0], [kind |-> "no_date", age |-> 0] }
    \cup { [kind |-> "found", age |-> a] : a \in WhoisAges }

\* extract_features, the WHOIS block: domain_age_days and domain_created_str
\* are assigned only when a creation date was found
whois_result(x, answer) ==
    IF answer.kind = "found"
    THEN [x EXCEPT !.domain_age_days = answer.age,
                   !.domain_created_str = <<"%Y-%m-%d", answer.age>>]
    ELSE x

extract_features_whois ==
    /\ pc = "whois"
    /\ \E answer \in WhoisAnswers :
          /\ ext' = whois_result(ext, answer)
          /\ env' = [env EXCEPT !.whois = answer.kind]
    /\ pc' = "dns"
    /\ UNCHANGED <<_model, _scaler, _engine_name, entry, input, url, features,
                   meta, bd, ml_prob, response,
                   defaulttimeout, earlier>>

\* socket.setdefaulttimeout(3)
DnsTimeout == 3

\* the answers of socket.gethostbyname(hostname): an address, or it raises
\* (unknown host, timeout after the 3 seconds of setdefaulttimeout)
DnsAnswers == { "resolves", "raises" }

\* dns_resolves is True only after gethostbyname returned
dns_result(x, answer) == [x EXCEPT !.dns_resolves = (answer = "resolves")]

\* has_non_standard_port = bool(parsed.port and parsed.port not in (80, 443))
has_non_standard_port(port) ==
    /\ Len(port.value) = 1
    /\ port.value[1] # 0
    /\ port.value[1] \notin { 80, 443 }

\* extract_features with the two except clauses left out
extract_raises_lookup_uncaught(x, port, lookups) ==
    port.raises \/ lookups.dns = "raises" \/ lookups.whois = "raises"

\* the exceptions no try block of extract_features catches: reading
\* parsed.port
extract_raises(x, port, lookups) == port.raises

\* what the caller of extract_features gets when it raises: analyze_url turns
\* it into HTTPException(422)
extraction_failed ==
    IF entry = "analyze_url"
    THEN [kind |-> "error", status |-> 422, detail |-> "Feature extraction failed"]
    ELSE [kind |-> "raised", status |-> 0, detail |-> "ValueError"]

\* extract_features, from the DNS block to the return
extract_features_dns ==
    /\ pc = "dns"
    /\ \E answer \in DnsAnswers :
          LET x == dns_result(ext, answer)
              port == parsed_port(x.parsed)
              lookups == [env EXCEPT !.dns = answer]
          IN  /\ ext' = x
              /\ env' = lookups
              /\ IF extract_raises(x, port, lookups)
                 THEN /\ Return(extraction_failed)
                      /\ UNCHANGED <<features, meta, bd>>
                 ELSE /\ features' = build_features(x, has_non_standard_port(port))
                      /\ meta' = build_meta(x)
                      /\ IF entry = "extract_features"
                         THEN /\ Return([kind |-> "features"])
                              /\ UNCHANGED bd
                         ELSE /\ bd' = bd_start
                              /\ pc' = "score_url"
                              /\ UNCHANGED response
    /\ defaulttimeout' = <<DnsTimeout>>
    /\ UNCHANGED <<_model, _scaler, _engine_name, entry, input, url, ml_prob,
                   earlier>>

\* compute_risk_breakdown, section 1
ScoreUrl ==
    /\ pc = "score_url"
    /\ bd' = score_url(bd, features)
    /\ pc' = "score_domain"
    /\ UNCHANGED <<_model, _scaler, _engine_name, entry, input, url, ext,
                   features, meta, ml_prob, env, response,
                   defaulttimeout, earlier>>

\* compute_risk_breakdown, section 2
ScoreDomain ==
    /\ pc = "score_domain"
    /\ bd' = score_domain(bd, features, meta)
    /\ pc' = "score_content"
    /\ UNCHANGED <<_model, _scaler, _engine_name, entry, input, url, ext,
                   features, meta, ml_prob, env, response,
                   defaulttimeout, earlier>>

\* compute_risk_breakdown, section 3
ScoreContent ==
    /\ pc = "score_content"
    /\ bd' = score_content(bd, features, meta)
    /\ pc' = "score_behavioral"
    /\ UNCHANGED <<_model, _scaler, _engine_name, entry, input, url, ext,
                   features, meta, ml_prob, env, response,
                   defaulttimeout, earlier>>

\* compute_risk_breakdown, section 4, the total and the return
ScoreBehavioral ==
    /\ pc = "score_behavioral"
    /\ bd' = score_behavioral(bd, features)
    /\ IF entry = "compute_risk_breakdown"
       THEN Return([kind |-> "breakdown"])
       ELSE pc' = "infer" /\ UNCHANGED response
    /\ UNCHANGED <<_model, _scaler, _engine_name, entry, input, url, ext,
                   features, meta, ml_prob, env,
                   defaulttimeout, earlier>>

\* analyze_url, step 3: the model's probability k/PDen, or None when no model
\* and scaler are loaded or inference raises
infer_result(loaded, raises, k) ==
    IF loaded /\ ~raises THEN <<k>> ELSE <<>>

analyze_url_infer ==
    /\ pc = "infer"
    /\ \E raises \in BOOLEAN, k \in 0..PDen :
          ml_prob' = infer_result(_model /\ _scaler, raises, k)
    /\ pc' = "combine"
    /\ UNCHANGED <<_model, _scaler, _engine_name, entry, input, url, ext,
                   features, meta, bd, env, response,
                   defaulttimeout, earlier>>

\* analyze_url, step 4 and the response
analyze_url_combine ==
    /\ pc = "combine"
    /\ LET c == IF Len(ml_prob) = 1
                THEN combine_ml(bd.total, bd.flags, ml_prob[1], _engine_name)
                ELSE combine_rules(bd.total)
       IN  Return([kind |-> "ok", status |-> 200,
                   url |-> url,
                   verdict |-> c.verdict,
                   confidence |-> c.confidence,
                   risk_score |-> c.risk_score,
                   engine |-> c.engine,
                   features |-> features,
                   feature_details |->
                       [protocol |-> meta.protocol, hostname |-> meta.hostname,
                        tld |-> meta.tld, domain |-> meta.domain,
                        suspicious_keywords |-> meta.suspicious_keywords,
                        domain_created |-> meta.domain_created],
                   breakdown |->
                       [url_score |-> bd.url_score,
                        domain_score |-> bd.domain_score,
                        content_score |-> bd.content_score,
                        behavioral_score |-> bd.behavioral_score],
                   flags |-> bd.flags])
    /\ UNCHANGED <<_model, _scaler, _engine_name, entry, input, url, ext,
                   features, meta, bd, ml_prob, env,
                   defaulttimeout, earlier>>

Next ==
    \/ _load_model
    \/ PostAnalyze
    \/ CallExtractFeatures
    \/ url_must_not_be_empty
    \/ analyze_url_normalize
    \/ extract_features_locals
    \/ extract_features_whois
    \/ extract_features_dns
    \/ ScoreUrl
    \/ ScoreDomain
    \/ ScoreContent
    \/ ScoreBehavioral
    \/ analyze_url_infer
    \/ analyze_url_combine
    \/ Finish

Spec == Init /\ [][Next]_vars

-----------------------------------------------------------------------------
(* analyze_url called again and again in one process, an earlier analysis
   kept to compare a later one with *)

RepeatedUrls ==
    { <<"p", "a", "y", "p", "a", "1", ".", "t", "k">>, <<"h", "t", "t", "p", ":", "/", "/", "e", "x", "a", "m", "p", "l", "e", ".", "c", "o", "m", ":", "8", "0", "8", "0", "/", "v", "e", "r", "i", "f", "y", "/", "a", "c", "c", "o", "u", "n", "t">>,
      <<"h", "t", "t", "p", "s", ":", "/", "/", "w", "w", "w", ".", "w", "i", "k", "i", "p", "e", "d", "i", "a", ".", "o", "r", "g", "/", "w", "i", "k", "i", "/", "P", "h", "i", "s", "h", "i", "n", "g">> }

InitTwice ==
    /\ \E o \in LoadOutcomes :
          /\ _model = o.model
          /\ _scaler = o.scaler
          /\ _engine_name = o.engine
    /\ pc = "idle"
    /\ entry = "none"
    /\ input = EmptyStr
    /\ url = Blank
    /\ ext = Blank
    /\ features = Blank
    /\ meta = Blank
    /\ bd = Blank
    /\ ml_prob = Blank
    /\ env = NoLookups
    /\ response = NoResponse
    /\ defaulttimeout = Blank
    /\ earlier = <<>>

\* a caller posts one of the repeated urls to /api/v1/analyze
PostAnalyzeAgain ==
    /\ pc = "idle"
    /\ \E u \in RepeatedUrls : input' = u
    /\ entry' = "analyze_url"
    /\ pc' = "validate"
    /\ UNCHANGED <<_model, _scaler, _engine_name, url, ext, features, meta, bd,
                   ml_prob, env, response, defaulttimeout, earlier>>

\* the url, the enrichment signals and the results of the analysis at its
\* return
Remembered ==
    [input |-> input, whois |-> env.whois, age |-> ext.domain_age_days,
     dns |-> env.dns, features |-> features, meta |-> meta, bd |-> bd]

\* the caller has its answer; the analysis is kept as the earlier one, or the
\* one kept before stays
FinishRemembering ==
    /\ pc = "done"
    /\ pc' = "idle"
    /\ entry' = "none"
    /\ input' = EmptyStr
    /\ url' = Blank
    /\ ext' = Blank
    /\ features' = Blank
    /\ meta' = Blank
    /\ bd' = Blank
    /\ ml_prob' = Blank
    /\ env' = NoLookups
    /\ response' = NoResponse
    /\ earlier' \in { earlier, <<Remembered>> }
    /\ UNCHANGED <<_model, _scaler, _engine_name, defaulttimeout>>

NextTwice ==
    \/ PostAnalyzeAgain
    \/ url_must_not_be_empty
    \/ analyze_url_normalize
    \/ extract_features_locals
    \/ extract_features_whois
    \/ extract_features_dns
    \/ ScoreUrl
    \/ ScoreDomain
    \/ ScoreContent
    \/ ScoreBehavioral
    \/ analyze_url_infer
    \/ analyze_url_combine
    \/ FinishRemembering

SpecTwice == InitTwice /\ [][NextTwice]_vars

-----------------------------------------------------------------------------
(* compute_risk_breakdown called on its own with any feature record *)

InitScore ==
    /\ _model = FALSE
    /\ _scaler = FALSE
    /\ _engine_name = RuleBased
    /\ pc = "score_url"
    /\ entry = "compute_risk_breakdown"
    /\ input = EmptyStr
    /\ url = Blank
    /\ ext = Blank
    /\ \E t \in CountTiers, r \in ScoredFields :
          /\ features = FeatureRecord(t, r)
          /\ meta = MetaFor(FeatureRecord(t, r))
    /\ bd = bd_start
    /\ ml_prob = Blank
    /\ env = NoLookups
    /\ response = NoResponse
    /\ defaulttimeout = Blank
    /\ earlier = <<>>

NextScore == ScoreUrl \/ ScoreDomain \/ ScoreContent \/ ScoreBehavioral

SpecScore == InitScore /\ [][NextScore]_vars

-----------------------------------------------------------------------------
(* compute_risk_breakdown called on its own with every domain age and every
   url length around the thresholds of the tiered rules *)

TierAges == (-3)..MaxAge

TierLengths == 70..MaxUrlLength

\* a feature record with this age and length that fires no other rule than
\* those of r
TierRecord(age, len, r) ==
    FeatureRecord(<<len, 0, 0>>,
                  [url_entropy |-> 41000, suspicious_keyword_count |-> 0,
                   domain_age_days |-> age, has_https |-> r.has_https,
                   has_ip_address |-> 0, has_at_symbol |-> 0,
                   has_double_slash |-> 0, has_hex_encoding |-> 0,
                   tld_is_high_risk |-> r.tld_is_high_risk,
                   brand_impersonation |-> r.brand_impersonation,
                   dns_resolves |-> 1, has_non_standard_port |-> 0])

InitTiers ==
    /\ _model = FALSE
    /\ _scaler = FALSE
    /\ _engine_name = RuleBased
    /\ pc = "score_url"
    /\ entry = "compute_risk_breakdown"
    /\ input = EmptyStr
    /\ url = Blank
    /\ ext = Blank
    /\ \E r \in [has_https : { 0, 1 }, tld_is_high_risk : { 0, 1 },
                 brand_impersonation : { 0, 1 }] :
          \/ \E age \in TierAges :
                /\ features = TierRecord(age, 60, r)
                /\ meta = MetaFor(TierRecord(age, 60, r))
          \/ \E len \in TierLengths :
                /\ features = TierRecord(200, len, r)
                /\ meta = MetaFor(TierRecord(200, len, r))
    /\ bd = bd_start
    /\ ml_prob = Blank
    /\ env = NoLookups
    /\ response = NoResponse
    /\ defaulttimeout = Blank
    /\ earlier = <<>>

SpecTiers == InitTiers /\ [][NextScore]_vars

-----------------------------------------------------------------------------
(* _parse_domain_parts called on its own with any hostname *)

InitParse ==
    /\ _model = FALSE
    /\ _scaler = FALSE
    /\ _engine_name = RuleBased
    /\ pc = "parse"
    /\ entry = "_parse_domain_parts"
    /\ input \in Hostnames
    /\ url = Blank
    /\ ext = Blank
    /\ features = Blank
    /\ meta = Blank
    /\ bd = Blank
    /\ ml_prob = Blank
    /\ env = NoLookups
    /\ response = NoResponse
    /\ defaulttimeout = Blank
    /\ earlier = <<>>

CallParseDomainParts ==
    /\ pc = "parse"
    /\ Return([kind |-> "parts", parts |-> _parse_domain_parts(input)])
    /\ UNCHANGED <<_model, _scaler, _engine_name, entry, input, url, ext,
                   features, meta, bd, ml_prob, env,
                   defaulttimeout, earlier>>

NextParse == CallParseDomainParts

SpecParse == InitParse /\ [][NextParse]_vars

-----------------------------------------------------------------------------
(* Claims *)

FeatureNames == { FEATURE_COLUMNS[i] : i \in 1..Len(FEATURE_COLUMNS) }

\* C1: the result of compute_risk_breakdown has total = url_score +
\* domain_score + content_score + behavioral_score, each category score
\* within its cap (40, 35, 15, 10) and not negative, and total in 0..100
C1_ScoreSumAndCaps ==
    (pc = "done" /\ response.kind = "breakdown") =>
        /\ bd.total = bd.url_score + bd.domain_score + bd.content_score
                          + bd.behavioral_score
        /\ bd.url_score \in 0..40
        /\ bd.domain_score \in 0..35
        /\ bd.content_score \in 0..15
        /\ bd.behavioral_score \in 0..10
        /\ bd.total \in 0..100

\* a breakdown whose URL and Domain rules add up to more than their caps
C1_Witness ==
    /\ pc = "done"
    /\ response.kind = "breakdown"
    /\ SumPts(url_rules(features)) > 40
    /\ bd.url_score = 40
    /\ SumPts(domain_rules(features, meta)) > 35
    /\ bd.domain_score = 35
    /\ bd.total = 95

\* the titles each rule of the scorer can append, in the order of the source
RuleTitles ==
    << { "No HTTPS" },
       { "Excessively Long URL", "Moderately Long URL" },
       { "IP Address Used Instead of Domain" },
       { "Excessive Hyphens in Domain" },
       { "@ Symbol in URL" },
       { "Double Slash in Path" },
       { "Hex / Percent Encoding Detected" },
       { "Excessive Subdomains" },
       { "Non-Standard Port" },
       { "High-Abuse TLD" },
       { "Brand Impersonation" },
       { "WHOIS Unavailable", "Brand-New Domain (< 7 days)",
         "Very New Domain (< 30 days)", "Relatively New Domain",
         "Established Domain" },
       { "Multiple Credential-Themed Keywords", "Suspicious Keywords",
         "One Suspicious Keyword" },
       { "High URL Entropy" },
       { "DNS Does Not Resolve" },
       { "HTTPS Enabled" } >>

RuleOf(flag) ==
    IF \E i \in 1..Len(RuleTitles) : flag.title \in RuleTitles[i]
    THEN CHOOSE i \in 1..Len(RuleTitles) : flag.title \in RuleTitles[i]
    ELSE 0

\* 1 URL Structure, 2 Domain Intelligence, 3 Content Analysis, 4 Behavioral
CategoryOf(rule) ==
    IF rule <= 9 THEN 1 ELSE IF rule <= 12 THEN 2 ELSE IF rule <= 14 THEN 3 ELSE 4

\* each flag is of a later rule than the flag before it, so of the same or a
\* later category
FlagsInRuleOrder(flags) ==
    LET rule == [i \in 1..Len(flags) |-> RuleOf(flags[i])]
    IN  /\ \A i \in 1..Len(flags) : rule[i] > 0
        /\ \A i \in 1..(Len(flags) - 1) :
              /\ rule[i] < rule[i + 1]
              /\ CategoryOf(rule[i]) <= CategoryOf(rule[i + 1])

IsPrefix(s, t) == Len(s) <= Len(t) /\ SubSeq(t, 1, Len(s)) = s

\* compute_risk_breakdown is running or has returned: bd holds its locals
InScorer ==
    \/ pc \in { "score_url", "score_domain", "score_content", "score_behavioral" }
    \/ (pc = "done" /\ response.kind = "breakdown")

\* C9: the flags of compute_risk_breakdown are in the order the rules fire
\* (URL rules, then Domain, then Content, then Behavioral, and in rule order
\* within a category), and a step of the scorer only appends: the flags it
\* finds stay as they are, at the front of the list
C9_FlagsAppendedInRuleOrder ==
    /\ [](InScorer => FlagsInRuleOrder(bd.flags))
    /\ [][(InScorer /\ InScorer') => IsPrefix(bd.flags, bd'.flags)]_vars

\* a returned breakdown with all fifteen flags one record can get
C9_Witness ==
    /\ pc = "done"
    /\ response.kind = "breakdown"
    /\ Len(bd.flags) = 15
    /\ { CategoryOf(RuleOf(bd.flags[i])) : i \in 1..Len(bd.flags) } = 1..4

NoDot(s) == \A i \in 1..Len(s) : s[i] # "."

Dot == <<".">>

\* C10: _parse_domain_parts returns three strings for every hostname: with
\* h the lowercased hostname, ("", hostname, "") when h has no dot;
\* ("", label0, label1) when it has one; otherwise tld is the two last labels
\* when they are a MULTI_TLDS suffix, and the last label when not, domain is
\* the label before the tld, and subdomain is all that precedes the domain
C10_ParseDomainParts ==
    (pc = "done" /\ response.kind = "parts") =>
        LET h == Lower(input)
            r == response.parts
            dots == Count(h, ".")
        IN  /\ DOMAIN r = { "subdomain", "domain", "tld" }
            /\ dots = 0 =>
                  /\ r.subdomain = EmptyStr /\ r.domain = input /\ r.tld = EmptyStr
            /\ dots = 1 =>
                  /\ r.subdomain = EmptyStr
                  /\ NoDot(r.domain) /\ NoDot(r.tld)
                  /\ r.domain \o Dot \o r.tld = h
            /\ dots >= 2 =>
                  IF \E m \in MULTI_TLDS : EndsWith(h, Dot \o m)
                  THEN /\ r.tld \in MULTI_TLDS
                       /\ EndsWith(h, Dot \o r.tld)
                       /\ NoDot(r.domain)
                       /\ IF dots = 2
                          THEN r.subdomain = EmptyStr /\ r.domain \o Dot \o r.tld = h
                          ELSE r.subdomain \o Dot \o r.domain \o Dot \o r.tld = h
                  ELSE /\ NoDot(r.tld) /\ NoDot(r.domain)
                       /\ r.subdomain \o Dot \o r.domain \o Dot \o r.tld = h
            /\ input = <<"m", "a", "i", "l", ".", "g", "o", "o", "g", "l", "e", ".", "c", "o", "m">> =>
                  r = [subdomain |-> <<"m", "a", "i", "l">>, domain |-> <<"g", "o", "o", "g", "l", "e">>, tld |-> <<"c", "o", "m">>]
            /\ input = <<"f", "o", "o", ".", "b", "a", "r", ".", "c", "o", ".", "u", "k">> =>
                  r = [subdomain |-> <<"f", "o", "o">>, domain |-> <<"b", "a", "r">>, tld |-> <<"c", "o", ".", "u", "k">>]
            /\ input = <<"e", "x", "a", "m", "p", "l", "e", ".", "c", "o", "m">> =>
                  r = [subdomain |-> EmptyStr, domain |-> <<"e", "x", "a", "m", "p", "l", "e">>, tld |-> <<"c", "o", "m">>]

\* "foo.bar.co.uk" parsed with the two-label suffix as its tld
C10_Witness ==
    /\ pc = "done"
    /\ response.kind = "parts"
    /\ input = <<"f", "o", "o", ".", "b", "a", "r", ".", "c", "o", ".", "u", "k">>
    /\ response.parts.tld = <<"c", "o", ".", "u", "k">>
    /\ response.parts.subdomain = <<"f", "o", "o">>

\* analyze_url has its response, computed with or without a model probability
Analyzed == pc = "done" /\ response.kind = "ok"

\* C2: with a model probability p < 0.5 and 3 or more red flags, the response
\* has verdict PHISHING, risk_score >= 75 and an engine label that ends in
\* "+override"; no response computed with a model probability has verdict
\* LEGITIMATE and 3 or more red flags
C2_SafetyNetOverride ==
    (Analyzed /\ Len(ml_prob) = 1) =>
        LET red == Cardinality({ i \in 1..Len(response.flags) :
                                   response.flags[i].severity = "red" })
        IN  /\ (red >= 3 /\ 2 * ml_prob[1] < PDen) =>
                  /\ response.verdict = PHISHING
                  /\ response.risk_score >= 75
                  /\ EndsWith(response.engine, OverrideSuffix)
            /\ ~(response.verdict = LEGITIMATE /\ red >= 3)

\* the model said p < 0.5 of a url with three red flags
C2_Witness ==
    /\ Analyzed
    /\ Len(ml_prob) = 1
    /\ 2 * ml_prob[1] < PDen
    /\ Cardinality({ i \in 1..Len(response.flags) :
                       response.flags[i].severity = "red" }) >= 3
    /\ response.verdict = PHISHING
    /\ response.risk_score = 75

\* C3: without a model probability (no model loaded, or inference raised) the
\* response has risk_score = the rule total, verdict PHISHING exactly when the
\* rule total is >= 45 and LEGITIMATE otherwise, and engine "rule-based",
\* whatever the number of red flags
C3_RuleBasedVerdict ==
    (Analyzed /\ Len(ml_prob) = 0) =>
        /\ response.risk_score = bd.total
        /\ response.verdict = (IF bd.total >= 45 THEN PHISHING ELSE LEGITIMATE)
        /\ response.engine = RuleBased

\* inference raised with a model loaded, and a url with three red flags and
\* a rule total under 45 is LEGITIMATE
C3_Witness ==
    /\ Analyzed
    /\ Len(ml_prob) = 0
    /\ _model /\ _scaler
    /\ red_flags(bd.flags) >= 3
    /\ bd.total < 45
    /\ response.verdict = LEGITIMATE

\* the override of step 4 fired
Overridden == Len(ml_prob) = 1 /\ 2 * ml_prob[1] < PDen /\ red_flags(bd.flags) >= 3

\* n is the integer nearest to num/den, the even one of the two on a tie
IsRounded(n, num, den) ==
    LET diff == IF n * den >= num THEN n * den - num ELSE num - n * den
    IN  /\ 2 * diff <= den
        /\ 2 * diff = den => n % 2 = 0

\* C4: with a model probability p = k/PDen and no override, risk_score is
\* round(p*60 + ruleTotal*0.4) = round((300k + 2*PDen*ruleTotal)/(5*PDen)) and
\* the verdict is PHISHING exactly when p >= 0.5; on every path risk_score is
\* an integer in 0..100
C4_BlendedRiskScore ==
    Analyzed =>
        /\ response.risk_score \in 0..100
        /\ (Len(ml_prob) = 1 /\ ~Overridden) =>
              /\ IsRounded(response.risk_score,
                           300 * ml_prob[1] + 2 * PDen * bd.total, 5 * PDen)
              /\ response.verdict =
                     (IF 2 * ml_prob[1] >= PDen THEN PHISHING ELSE LEGITIMATE)

\* a blended score that round() rounded up, without the override
C4_Witness ==
    /\ Analyzed
    /\ Len(ml_prob) = 1
    /\ ~Overridden
    /\ 5 * PDen * response.risk_score > 300 * ml_prob[1] + 2 * PDen * bd.total
    /\ response.verdict = PHISHING

\* extract_features returned its records (to analyze_url or to the caller)
Extracted == pc = "done" /\ response.kind \in { "ok", "features" }

\* C5: a WHOIS or DNS lookup that raises (or times out, or WHOIS is not
\* installed) does not fail the call: unless parsed.port raises, the call
\* returns a complete feature record, with dns_resolves = 0 after a failed
\* DNS lookup and domain_age_days = -1, domain_created "Unknown" after a failed
\* WHOIS lookup, and analyze_url goes on to a verdict and a risk score
C5_LookupFailuresAbsorbed ==
    (pc = "done" /\ (env.whois = "raises" \/ env.dns = "raises")) =>
        /\ ~parsed_port(ext.parsed).raises =>
              /\ response.kind = (IF entry = "analyze_url" THEN "ok" ELSE "features")
              /\ DOMAIN features = FeatureNames
              /\ env.dns = "raises" => features.dns_resolves = 0
              /\ env.whois = "raises" =>
                    /\ features.domain_age_days = -1
                    /\ meta.domain_created = <<"Unknown">>
              /\ entry = "analyze_url" =>
                    /\ response.features = features
                    /\ response.feature_details.domain_created = meta.domain_created
                    /\ response.verdict \in { PHISHING, LEGITIMATE }
                    /\ response.risk_score \in 0..100
        /\ parsed_port(ext.parsed).raises => response.kind \in { "error", "raised" }

\* both lookups raised and analyze_url answered with a verdict
C5_Witness ==
    /\ Analyzed
    /\ env.whois = "raises"
    /\ env.dns = "raises"
    /\ features.dns_resolves = 0
    /\ features.domain_age_days = -1
    /\ response.verdict = PHISHING

\* C6: a url without a hostname (as "http://" or "http:///path") makes
\* extraction report an error and give no feature record; it is never scored
\* with the hostname defaulted to ""
C6_NoHostnameIsAnError ==
    Extracted => Len(ext.hostname) > 0

\* C7: a request whose url is empty or only whitespace is rejected with the
\* validation error before any extraction, lookup or scoring, and never gets
\* an analysis result
C7_BlankUrlRejected ==
    (entry = "analyze_url" /\ Len(Strip(input)) = 0) =>
        /\ pc \in { "validate", "done" }
        /\ env = NoLookups
        /\ pc = "done" =>
              /\ response.kind = "error"
              /\ response.status = 422
              /\ response.detail = "url must not be empty"

\* a url of whitespace only was rejected
C7_Witness ==
    /\ pc = "done"
    /\ entry = "analyze_url"
    /\ Len(input) > 0
    /\ Len(Strip(input)) = 0
    /\ response.kind = "error"
    /\ response.detail = "url must not be empty"

\* C8: a url that after trimming starts with neither "http://" nor
\* "https://" is analysed with "http://" prepended: scheme http and
\* has_https = 0, through extract_features and through analyze_url alike
C8_SchemeDefaultsToHttp ==
    (Extracted /\ ~HasScheme(Strip(input))) =>
        /\ meta.protocol = <<"h", "t", "t", "p">>
        /\ features.has_https = 0
        /\ ext.url = PrefixHttp(Strip(input))

\* pair i of the brand table meets one of the three conditions for the url
\* and domain that extract_features parsed
BrandCondition(i) ==
    LET brand == BRAND_DOMAINS[i][1]
        official_domain == BRAND_DOMAINS[i][2]
        lowered == Lower(ext.url)
        normalized_url == _normalize_leet(lowered)
        normalized_domain == _normalize_leet(ext.domain)
    IN  \/ Contains(lowered, brand) /\ ext.domain # official_domain
        \/ normalized_domain = official_domain /\ ext.domain # official_domain
        \/ /\ Contains(normalized_url, brand)
           /\ ext.domain # official_domain
           /\ normalized_domain # official_domain

\* C11: brand_impersonation is 1 exactly when some pair of the brand table
\* meets condition (a), (b) or (c), and 0 otherwise; domain "paypa1" with tld
\* "com" gives 1 and the url "http://paypal.com" gives 0
C11_BrandImpersonation ==
    Extracted =>
        /\ features.brand_impersonation \in { 0, 1 }
        /\ features.brand_impersonation = 1
               <=> \E i \in 1..Len(BRAND_DOMAINS) : BrandCondition(i)
        /\ (ext.domain = <<"p", "a", "y", "p", "a", "1">> /\ ext.tld = <<"c", "o", "m">>)
               => features.brand_impersonation = 1
        /\ ext.url = <<"h", "t", "t", "p", ":", "/", "/", "p", "a", "y", "p", "a", "l", ".", "c", "o", "m">> => features.brand_impersonation = 0

\* the leet domain paypa1.com was flagged on condition (b) alone
C11_Witness ==
    /\ Extracted
    /\ ext.domain = <<"p", "a", "y", "p", "a", "1">>
    /\ ext.tld = <<"c", "o", "m">>
    /\ ~Contains(Lower(ext.url), <<"p", "a", "y", "p", "a", "l">>)
    /\ features.brand_impersonation = 1

\* the analysis at its return had the url and the enrichment signals (WHOIS
\* outcome and age, DNS outcome) of the earlier analysis kept
SameAsEarlier ==
    /\ Analyzed
    /\ Len(earlier) = 1
    /\ earlier[1].input = input
    /\ earlier[1].whois = env.whois
    /\ earlier[1].age = ext.domain_age_days
    /\ earlier[1].dns = env.dns

C13_NoProcessWideWrites ==
    pc # "load" => defaulttimeout = Blank

\* the scenario url analysed with DNS unresolved and no WHOIS age
ScenarioAnalyzed ==
    /\ Analyzed
    /\ input = <<"h", "t", "t", "p", ":", "/", "/", "s", "e", "c", "u", "r", "e", "-", "p", "a", "y", "p", "a", "l", "-", "l", "o", "g", "i", "n", ".", "t", "k", "/", "v", "e", "r", "i", "f", "y", "/", "a", "c", "c", "o", "u", "n", "t">>
    /\ env.dns = "raises"
    /\ env.whois \in { "raises", "no_date" }

\* flags has a flag of this severity for this feature
HasFlag(flags, severity, feature) ==
    \E i \in 1..Len(flags) :
        flags[i].severity = severity /\ flags[i].feature = feature

\* C14: "http://secure-paypal-login.tk/verify/account" with DNS unresolved
\* and WHOIS age unknown has has_https = 0 (+8 url points), a high-risk tld
\* (+12), brand impersonation (+15), domain_age_days = -1 (+5), three or more
\* keywords (+10 content points), dns_resolves = 0 (+5 behavioral points),
\* a total of at least 55, and verdict PHISHING in rule-based mode
C14_PaypalLoginScenario ==
    ScenarioAnalyzed =>
        /\ features.has_https = 0
        /\ url_rules(features)[1].pts = 8
        /\ HasFlag(response.flags, "red", "has_https")
        /\ bd.url_score >= 8
        /\ features.tld_is_high_risk = 1
        /\ features.brand_impersonation = 1
        /\ features.domain_age_days = -1
        /\ HasFlag(response.flags, "red", "tld_is_high_risk")
        /\ HasFlag(response.flags, "red", "brand_impersonation")
        /\ HasFlag(response.flags, "yellow", "domain_age_days")
        /\ bd.domain_score = 12 + 15 + 5
        /\ features.suspicious_keyword_count >= 3
        /\ \A kw \in { <<"s", "e", "c", "u", "r", "e">>, <<"l", "o", "g", "i", "n">>, <<"v", "e", "r", "i", "f", "y">>, <<"a", "c", "c", "o", "u", "n", "t">> } :
              \E i \in 1..Len(meta.suspicious_keywords) :
                  meta.suspicious_keywords[i] = kw
        /\ HasFlag(response.flags, "red", "suspicious_keyword_count")
        /\ bd.content_score = 10
        /\ features.dns_resolves = 0
        /\ HasFlag(response.flags, "yellow", "dns_resolves")
        /\ bd.behavioral_score = 5
        /\ bd.total >= 55
        /\ Len(ml_prob) = 0 =>
              /\ response.risk_score = bd.total
              /\ response.verdict = PHISHING
              /\ response.engine = RuleBased

\* the scenario answered in rule-based mode
C14_Witness ==
    /\ ScenarioAnalyzed
    /\ ~_model
    /\ Len(ml_prob) = 0
    /\ bd.total >= 55
    /\ response.verdict = PHISHING

\* compute_risk_breakdown is past its Domain section
DomainScored ==
    /\ entry = "compute_risk_breakdown"
    /\ pc \in { "score_content", "score_behavioral", "done" }

\* the flags appended for a feature
FlagsOf(flags, feature) == SelectSeq(flags, LAMBDA fl : fl.feature = feature)

\* C15: for every domain_age_days exactly one flag with feature
\* "domain_age_days" is appended and the points of exactly one bucket are
\* added: -1 adds 5 (yellow), otherwise < 7 adds 12 (red), otherwise < 30
\* adds 8 (red), otherwise < 180 adds 3 (yellow), otherwise 0 with a green
\* flag; -1 is not scored by the < 7 bucket
C15_ExactlyOneAgeBucket ==
    DomainScored =>
        LET age == features.domain_age_days
            bucket == IF age = -1 THEN <<5, "yellow">>
                      ELSE IF age < 7 THEN <<12, "red">>
                      ELSE IF age < 30 THEN <<8, "red">>
                      ELSE IF age < 180 THEN <<3, "yellow">>
                      ELSE <<0, "green">>
            age_flags == FlagsOf(bd.flags, "domain_age_days")
        IN  /\ Len(age_flags) = 1
            /\ age_flags[1].severity = bucket[2]
            /\ bd.domain_score =
                   Min(35, 12 * features.tld_is_high_risk
                           + 15 * features.brand_impersonation + bucket[1])
            /\ age = -1 => age_flags[1].title = "WHOIS Unavailable"

\* the sentinel was scored 5 with one yellow flag and nothing else in the
\* Domain section
C15_Witness ==
    /\ DomainScored
    /\ features.domain_age_days = -1
    /\ features.tld_is_high_risk = 0
    /\ features.brand_impersonation = 0
    /\ bd.domain_score = 5
    /\ Len(FlagsOf(bd.flags, "domain_age_days")) = 1

\* compute_risk_breakdown is past its URL Structure section
UrlScored ==
    /\ entry = "compute_risk_breakdown"
    /\ pc \in { "score_domain", "score_content", "score_behavioral", "done" }

\* C16: the url-length rule adds min(10, ((url_length-100)//20)*3+3) points
\* with a red flag when url_length > 100, 3 points with a yellow flag for
\* every url_length from 75 to 100 inclusive, and nothing (no flag) when
\* url_length < 75; here no other rule of the section fires but No HTTPS
C16_UrlLengthTiers ==
    UrlScored =>
        LET len == features.url_length
            tier == IF len > 100
                    THEN <<Min(10, ((len - 100) \div 20) * 3 + 3), "red">>
                    ELSE IF len >= 75 THEN <<3, "yellow">>
                    ELSE <<0, "none">>
            length_flags == FlagsOf(bd.flags, "url_length")
        IN  /\ bd.url_score = 8 * (1 - features.has_https) + tier[1]
            /\ IF len < 75
               THEN Len(length_flags) = 0
               ELSE /\ Len(length_flags) = 1
                    /\ length_flags[1].severity = tier[2]

\* the position of a keyword in SUSPICIOUS_KEYWORDS
KeywordIndex(kw) ==
    CHOOSE i \in 1..Len(SUSPICIOUS_KEYWORDS) : SUSPICIOUS_KEYWORDS[i] = kw

\* C17: the matched-keyword list of the metadata has no duplicates, holds
\* exactly the keywords of SUSPICIOUS_KEYWORDS that are substrings of the
\* lowercased url or of its leet-normalized form, lists the keywords of the
\* raw url in table order before those only the normalized form has, in table
\* order, and suspicious_keyword_count is its length
C17_MatchedKeywords ==
    Extracted =>
        LET kws == meta.suspicious_keywords
            lowered == Lower(ext.url)
            normalized == _normalize_leet(lowered)
            InRaw(kw) == Contains(lowered, kw)
        IN  /\ \A i, j \in 1..Len(kws) : i # j => kws[i] # kws[j]
            /\ { kws[i] : i \in 1..Len(kws) } =
                   { SUSPICIOUS_KEYWORDS[n] : n \in
                       { m \in 1..Len(SUSPICIOUS_KEYWORDS) :
                           \/ Contains(lowered, SUSPICIOUS_KEYWORDS[m])
                           \/ Contains(normalized, SUSPICIOUS_KEYWORDS[m]) } }
            /\ \A i, j \in 1..Len(kws) :
                  i < j =>
                      /\ InRaw(kws[j]) => InRaw(kws[i])
                      /\ InRaw(kws[i]) = InRaw(kws[j]) =>
                             KeywordIndex(kws[i]) < KeywordIndex(kws[j])
            /\ features.suspicious_keyword_count = Len(kws)

\* "verify" of the raw url is listed before "login", which only the
\* normalized url has and which comes first in the table
C17_Witness ==
    /\ Extracted
    /\ ext.url = <<"h", "t", "t", "p", ":", "/", "/", "e", "x", "a", "m", "p", "l", "e", ".", "c", "o", "m", "/", "l", "0", "g", "i", "n", "/", "v", "e", "r", "i", "f", "y">>
    /\ meta.suspicious_keywords = << <<"v", "e", "r", "i", "f", "y">>, <<"l", "o", "g", "i", "n">> >>
    /\ features.suspicious_keyword_count = 2

\* C18: whatever _load_model found, a response is labelled "rule-based"
\* exactly when no model probability went into its verdict and risk score; a
\* response computed with a model probability is labelled neither
\* "rule-based" nor "rule-based+override"
C18_EngineLabelTellsTheMode ==
    Analyzed =>
        /\ response.engine = RuleBased <=> Len(ml_prob) = 0
        /\ Len(ml_prob) = 1 =>
              response.engine \notin { RuleBased, RuleBased \o OverrideSuffix }
        /\ (~_model \/ ~_scaler) =>
              /\ Len(ml_prob) = 0
              /\ response.engine = RuleBased

====
